---- MODULE Spec2Model ----
(***************************************************************************)
(* The charge ledger of pinax-stripe: charges.py (create, capture,         *)
(* _validate_create_params, calculate_refund_amount,                       *)
(* sync_charge_from_stripe_data) and refunds.py (create), over a local     *)
(* store of Charge and Customer rows and an external payment processor.    *)
(*                                                                         *)
(* Encoding of Python values                                               *)
(*   - a number-like value is a record [type, v]: type is the Python type  *)
(*     ("none" for None), v an integer; a decimal.Decimal carries its      *)
(*     value in hundredths (Dec(150) is Decimal("1.50")), an int its value;*)
(*   - an id or a text is a TLA+ string, None the string "None";           *)
(*   - a nullable boolean column that no code of the ledger reads before   *)
(*     it is written holds FALSE where the database holds NULL.            *)
(***************************************************************************)
EXTENDS Integers, Sequences, FiniteSets, TLC

VARIABLES charges, customers, last, probe

vars == <<charges, customers, last, probe>>

(***************************************************************************)
(* Bounds                                                                  *)
(***************************************************************************)
MaxUnits == 2
NumCharges == 2
MaxProbe == 3

(***************************************************************************)
(* Python values                                                           *)
(***************************************************************************)
None == "None"
NoneV == [type |-> "none", v |-> 0]
Dec(n) == [type |-> "decimal", v |-> n]
IntV(n) == [type |-> "int", v |-> n]
Flt(n) == [type |-> "float", v |-> n]
StrV(n) == [type |-> "str", v |-> n]
DateTime(n) == [type |-> "datetime", v |-> n]

\* bool(x) of a number-like value: None, zero and the empty string are false.
TruthyV(x) == x.type # "none" /\ x.v # 0
\* bool(s) of an id or a text.
TruthyS(s) == s # None /\ s # ""
\* int(n / d), which truncates toward zero.
Trunc(n, d) == IF n >= 0 THEN n \div d ELSE -((-n) \div d)
MinV(a, b) == IF b.v < a.v THEN b ELSE a

(***************************************************************************)
(* utils: the amount codec and the timestamp conversion                    *)
(***************************************************************************)
ZERO_DECIMAL_CURRENCIES == {"jpy"}

convert_amount_for_db(amount, currency) ==
    IF currency \in ZERO_DECIMAL_CURRENCIES
    THEN Dec(amount.v * 100)
    ELSE Dec(amount.v)

convert_amount_for_api(amount, currency) ==
    IF currency \in ZERO_DECIMAL_CURRENCIES
    THEN IntV(Trunc(amount.v, 100))
    ELSE IntV(amount.v)

convert_tstamp(t) == IF t.type = "none" THEN NoneV ELSE DateTime(t.v)

(***************************************************************************)
(* The local store                                                         *)
(***************************************************************************)
LocalAccounts == {"acct_1"}
LocalInvoices == {"in_1"}
\* The Customer rows the customer lifecycle (outside this code) has made.
InitCustomers ==
    {[stripe_id |-> "cus_1", stripe_account |-> None],
     [stripe_id |-> "cus_2", stripe_account |-> "acct_1"]}

ChargeDefaults(id) ==
    [stripe_id |-> id, customer |-> None, stripe_account_hc |-> None,
     source |-> "", currency |-> "usd", invoice |-> None, amount |-> NoneV,
     paid |-> FALSE, refunded |-> FALSE, captured |-> FALSE,
     disputed |-> FALSE, charge_created |-> NoneV, description |-> "",
     amount_refunded |-> NoneV, available |-> FALSE, available_on |-> NoneV,
     fee |-> NoneV, fee_currency |-> None, transfer_group |-> None,
     outcome |-> None]

ChargeRows(chs, id) == {r \in chs : r.stripe_id = id}

\* A variant of line 204 that inserts a fresh row on every call.
Charge_create(chs, id) ==
    [table |-> chs \cup {ChargeDefaults(id)}, obj |-> ChargeDefaults(id)]

\* models.Charge.objects.get_or_create(stripe_id=id): the table after the
\* call and the row it returns.
Charge_get_or_create(chs, id) ==
    IF ChargeRows(chs, id) # {}
    THEN [table |-> chs, obj |-> CHOOSE r \in ChargeRows(chs, id) : TRUE]
    ELSE [table |-> chs \cup {ChargeDefaults(id)}, obj |-> ChargeDefaults(id)]

\* obj.save(): the row read as `old` is written back as `obj`.
Charge_save(chs, old, obj) == (chs \ {old}) \cup {obj}

CustomerRows(custs, id) == {c \in custs : c.stripe_id = id}

\* models.Customer.objects.filter(stripe_id=id).first(): the row's key or None
Customer_first(custs, id) ==
    IF CustomerRows(custs, id) # {} THEN id ELSE None

\* customer.stripe_account of a resolved customer (None for no customer)
Customer_stripe_account(custs, id) ==
    IF CustomerRows(custs, id) = {} THEN None
    ELSE (CHOOSE c \in CustomerRows(custs, id) : TRUE).stripe_account

\* models.Customer.objects.get_or_create(stripe_id=id)
Customer_get_or_create(custs, id) ==
    IF CustomerRows(custs, id) # {} THEN custs
    ELSE custs \cup {[stripe_id |-> id, stripe_account |-> None]}

\* models.Invoice.objects.filter(stripe_id=id).first()
Invoice_first(id) == IF id \in LocalInvoices THEN id ELSE None

(***************************************************************************)
(* charges.sync_charge_from_stripe_data                                    *)
(***************************************************************************)
\* A variant of lines 219-222 that keeps the reported figure even when the
\* representation says the charge is fully refunded.
SyncAmountRefundedAsReported(old, data, amount, currency) ==
    IF TruthyV(data.amount_refunded)
    THEN convert_amount_for_db(data.amount_refunded, currency)
    ELSE old

\* Lines 219-222: the conditional update of amount_refunded.
SyncAmountRefunded(old, data, amount, currency) ==
    LET reported == IF TruthyV(data.amount_refunded)
                    THEN convert_amount_for_db(data.amount_refunded, currency)
                    ELSE old
    IN IF data.refunded THEN amount ELSE reported

\* A variant of lines 223-232 that assigns the settlement fields from
\* whatever the representation carries.
SyncBalanceAlways(obj, bt) ==
    [obj EXCEPT !.available = (bt.status = "available"),
                !.available_on = convert_tstamp(bt.available_on),
                !.fee = convert_amount_for_db(bt.fee, bt.currency),
                !.fee_currency = bt.currency]

\* Lines 223-232: the settlement fields, from a full balance transaction only.
SyncBalance(obj, bt) ==
    IF bt.kind # "none" /\ bt.kind # "id"
    THEN [obj EXCEPT !.available = (bt.status = "available"),
                     !.available_on = convert_tstamp(bt.available_on),
                     !.fee = convert_amount_for_db(bt.fee, bt.currency),
                     !.fee_currency = bt.currency]
    ELSE obj

\* Lines 205-234: the fields of obj after the assignments, before save().
SyncFields(obj, custs, data, stripe_account) ==
    LET customer == Customer_first(custs, data.customer)
        amount == convert_amount_for_db(data.amount, data.currency)
        o1 == [obj EXCEPT
                 !.customer = customer,
                 !.stripe_account_hc =
                     IF Customer_stripe_account(custs, customer) = None
                        /\ stripe_account # None
                     THEN stripe_account ELSE @,
                 !.source = data.source,
                 !.currency = data.currency,
                 !.invoice = Invoice_first(data.invoice),
                 !.amount = amount,
                 !.paid = data.paid,
                 !.refunded = data.refunded,
                 !.captured = data.captured,
                 !.disputed = (data.dispute # None),
                 !.charge_created = convert_tstamp(data.created),
                 !.description =
                     IF TruthyS(data.description) THEN data.description ELSE @,
                 !.amount_refunded =
                     SyncAmountRefunded(@, data, amount, data.currency)]
        o2 == SyncBalance(o1, data.balance_transaction)
    IN [o2 EXCEPT !.transfer_group = data.transfer_group,
                  !.outcome = data.outcome]

\* Lines 205-236 on the row obj that get_or_create returned in `table`:
\* [ok, error, charges]. Account.objects.get (line 207) raises DoesNotExist
\* after get_or_create has already written its row.
SyncRow(table, obj, custs, data, stripe_account) ==
    IF /\ Customer_stripe_account(custs,
              Customer_first(custs, data.customer)) = None
       /\ stripe_account # None
       /\ stripe_account \notin LocalAccounts
    THEN [ok |-> FALSE, error |-> "DoesNotExist", charges |-> table]
    ELSE [ok |-> TRUE, error |-> "",
          charges |-> Charge_save(table, obj,
                          SyncFields(obj, custs, data, stripe_account))]

SyncGot(goc, custs, data, stripe_account) ==
    SyncRow(goc.table, goc.obj, custs, data, stripe_account)

\* The whole call.
sync_charge_from_stripe_data(chs, custs, data, stripe_account) ==
    SyncGot(Charge_get_or_create(chs, data.id), custs, data, stripe_account)

(***************************************************************************)
(* models.Charge: the connected-account context recorded for a charge      *)
(***************************************************************************)
\* charge.stripe_account_stripe_id: the customer's account when the customer
\* carries one, otherwise the account recorded on the charge itself.
Charge_stripe_account_stripe_id(custs, c) ==
    IF Customer_stripe_account(custs, c.customer) # None
    THEN Customer_stripe_account(custs, c.customer)
    ELSE c.stripe_account_hc

(***************************************************************************)
(* charges.calculate_refund_amount                                         *)
(***************************************************************************)
\* charge.amount_refunded or 0
OrZero(x) == IF TruthyV(x) THEN x ELSE Dec(0)

calculate_refund_amount(charge, amount) ==
    LET eligible_to_refund == Dec(charge.amount.v - OrZero(charge.amount_refunded).v)
    IN IF TruthyV(amount)
       THEN MinV(eligible_to_refund, amount)
       ELSE eligible_to_refund

(***************************************************************************)
(* charges._validate_create_params: the message of the ValueError raised   *)
(* (without its quoting marks), "" when the call returns                   *)
(***************************************************************************)
NoCustomer == [kind |-> "none", stripe_id |-> None,
               stripe_account_stripe_id |-> None]
CustomerObject(c) == [kind |-> "object", stripe_id |-> c.stripe_id,
                      stripe_account_stripe_id |-> c.stripe_account]
CustomerId(id) == [kind |-> "id", stripe_id |-> id,
                   stripe_account_stripe_id |-> None]
\* bool(customer): a model instance and a non-empty id are true.
TruthyC(customer) == customer.kind # "none"
IsDecimal(x) == x.type = "decimal"

validate_create_params(customer, source, amount, application_fee, direct_connect, destination_account, destination_amount, on_behalf_of) ==
    IF ~TruthyC(customer) /\ ~TruthyS(source)
    THEN "Must provide customer or source."
    ELSE IF ~IsDecimal(amount)
    THEN "You must supply a decimal value for amount."
    ELSE IF TruthyV(application_fee) /\ ~IsDecimal(application_fee)
    THEN "You must supply a decimal value for application_fee."
    ELSE IF TruthyS(destination_account) /\ TruthyS(direct_connect)
    THEN "You can only supply a destination account OR a direct account, but not both."
    ELSE IF TruthyS(direct_connect) /\ application_fee.type = "none"
    THEN "An application fee must be provided when using direct Connect payment. 0 is ok"
    ELSE IF TruthyS(direct_connect) /\ TruthyV(destination_amount)
    THEN "Destination amount param is for destination mode Connect, not for direct payment mode."
    ELSE IF TruthyV(application_fee) /\ ~TruthyS(destination_account)
            /\ ~TruthyS(direct_connect)
    THEN "You can only specify application_fee with destination_account or direct_connect"
    ELSE IF TruthyV(application_fee) /\ TruthyS(destination_account)
            /\ TruthyV(destination_amount)
    THEN "You cannot specify application_fee with destination_amount"
    ELSE IF TruthyS(destination_account) /\ TruthyS(on_behalf_of)
    THEN "destination_account and on_behalf_of are mutualy exclusive"
    ELSE ""

(***************************************************************************)
(* The processor: what it answers to a request the ledger issued           *)
(***************************************************************************)
NoBT == [kind |-> "none", status |-> "", available_on |-> NoneV,
         fee |-> NoneV, currency |-> None]
BareBT == [NoBT EXCEPT !.kind = "id"]
FullBT(status) == [kind |-> "object", status |-> status,
                   available_on |-> IntV(7), fee |-> IntV(30),
                   currency |-> "usd"]

BaseRep(id) ==
    [id |-> id, customer |-> None, source |-> "src_1", currency |-> "usd",
     invoice |-> None, amount |-> IntV(100), paid |-> TRUE,
     refunded |-> FALSE, captured |-> TRUE, dispute |-> None,
     created |-> IntV(1), description |-> None, amount_refunded |-> IntV(0),
     balance_transaction |-> NoBT, transfer_group |-> None, outcome |-> None]

\* The charge the processor creates for a CreateCharge request, under the id
\* it assigns: the request's figures, nothing refunded, the settlement as a
\* bare reference (create asks for no expansion).
CreateResponse(kwargs, id) ==
    [BaseRep(id) EXCEPT !.customer = kwargs.customer,
                        !.source = IF kwargs.source = None THEN "src_1"
                                   ELSE kwargs.source,
                        !.currency = kwargs.currency,
                        !.amount = kwargs.amount,
                        !.captured = kwargs.capture,
                        !.description = kwargs.description,
                        !.amount_refunded = IntV(0),
                        !.balance_transaction = BareBT]

\* The charge as the processor shows it after a capture or on a retrieve
\* with expand=["balance_transaction"]: the figures the ledger holds for it
\* (the base figures for a row never synced), with the settlement object in
\* the given status.
ExpandedResponse(custs, charge, status) ==
    IF charge.amount.type = "none"
    THEN [BaseRep(charge.stripe_id) EXCEPT
             !.balance_transaction = FullBT(status)]
    ELSE [BaseRep(charge.stripe_id) EXCEPT
             !.customer = charge.customer,
             !.currency = charge.currency,
             !.amount = convert_amount_for_api(charge.amount, charge.currency),
             !.amount_refunded =
                 convert_amount_for_api(OrZero(charge.amount_refunded),
                                        charge.currency),
             !.refunded = charge.refunded,
             !.balance_transaction = FullBT(status)]

(***************************************************************************)
(* charges.create                                                          *)
(***************************************************************************)
\* Lines 121-122: a customer given as a bare id is looked up or created.
ResolveCustomerTable(custs, customer) ==
    IF customer.kind = "id"
    THEN Customer_get_or_create(custs, customer.stripe_id)
    ELSE custs

ResolveCustomer(custs, customer) ==
    IF customer.kind = "id"
    THEN [kind |-> "object", stripe_id |-> customer.stripe_id,
          stripe_account_stripe_id |->
              Customer_stripe_account(
                  Customer_get_or_create(custs, customer.stripe_id),
                  customer.stripe_id)]
    ELSE customer

\* Lines 124-153: the keyword arguments of stripe.Charge.create. A key the
\* code does not set is None (NoneV for a number).
CreateKwargs(p, customer) ==
    [kind |-> "Charge.create",
     amount |-> convert_amount_for_api(p.amount, p.currency),
     currency |-> p.currency,
     source |-> p.source,
     customer |-> customer.stripe_id,
     stripe_account |-> IF TruthyS(p.direct_connect) THEN p.direct_connect
                        ELSE customer.stripe_account_stripe_id,
     description |-> p.description,
     capture |-> p.capture,
     idempotency_key |-> p.idempotency_key,
     metadata |-> p.metadata,
     destination_account |-> IF TruthyS(p.destination_account)
                             THEN p.destination_account ELSE None,
     destination_amount |-> IF TruthyS(p.destination_account)
                               /\ TruthyV(p.destination_amount)
                            THEN convert_amount_for_api(p.destination_amount,
                                                        p.currency)
                            ELSE NoneV,
     application_fee |-> IF TruthyV(p.application_fee)
                         THEN convert_amount_for_api(p.application_fee,
                                                     p.currency)
                         ELSE NoneV,
     on_behalf_of |-> IF TruthyS(p.on_behalf_of) THEN p.on_behalf_of
                      ELSE None]

\* destination_account or direct_connect (line 158)
SyncAccountOfCreate(p) ==
    IF TruthyS(p.destination_account) THEN p.destination_account
    ELSE p.direct_connect

\* Lines 155-161, given what the processor answered and what the sync of
\* its answer did.
CreateFinish(custs1, kwargs, synced, p, env) ==
    IF ~synced.ok
    THEN [charges |-> synced.charges, customers |-> custs1,
          requests |-> <<kwargs>>, outcome |-> synced.error,
          error |-> "", returned |-> None]
    ELSE IF p.send_receipt /\ ~env.receipt_ok
    THEN [charges |-> synced.charges, customers |-> custs1,
          requests |-> <<kwargs>>, outcome |-> "ReceiptError",
          error |-> "", returned |-> None]
    ELSE [charges |-> synced.charges, customers |-> custs1,
          requests |-> <<kwargs>>, outcome |-> "ok", error |-> "",
          returned |-> env.id]

\* Lines 155-158: the request, and the sync of a successful response only.
CreateIssue(chs, custs1, kwargs, p, env) ==
    IF ~env.processor_ok
    THEN [charges |-> chs, customers |-> custs1, requests |-> <<kwargs>>,
          outcome |-> "StripeError", error |-> "", returned |-> None]
    ELSE CreateFinish(custs1, kwargs,
             sync_charge_from_stripe_data(chs, custs1,
                 CreateResponse(kwargs, env.id), SyncAccountOfCreate(p)),
             p, env)

\* Lines 123-158, after the customer has been resolved.
CreateValidated(chs, custs1, customer, error, p, env) ==
    IF error # ""
    THEN [charges |-> chs, customers |-> custs1, requests |-> <<>>,
          outcome |-> "ValueError", error |-> error, returned |-> None]
    ELSE CreateIssue(chs, custs1, CreateKwargs(p, customer), p, env)

CreateResolved(chs, custs1, customer, p, env) ==
    CreateValidated(chs, custs1, customer,
        validate_create_params(customer, p.source, p.amount,
            p.application_fee, p.direct_connect, p.destination_account,
            p.destination_amount, p.on_behalf_of),
        p, env)

\* The whole call under an environment env = [processor_ok, id, receipt_ok]:
\* the tables after it, the requests it issued, how it ended.
create(chs, custs, p, env) ==
    CreateResolved(chs, ResolveCustomerTable(custs, p.customer),
                   ResolveCustomer(custs, p.customer), p, env)

(***************************************************************************)
(* charges.capture                                                         *)
(***************************************************************************)
\* A variant of lines 35-46 that sends no idempotency key.
CaptureRequestUnkeyed(custs, charge, amount, idempotency_key) ==
    [kind |-> "Charge.capture",
     id |-> charge.stripe_id,
     stripe_account |-> Charge_stripe_account_stripe_id(custs, charge),
     amount |-> convert_amount_for_api(
                    IF TruthyV(amount) THEN amount ELSE charge.amount,
                    charge.currency),
     idempotency_key |-> None,
     expand |-> "balance_transaction"]

\* Lines 35-46: the capture request.
CaptureRequest(custs, charge, amount, idempotency_key) ==
    [kind |-> "Charge.capture",
     id |-> charge.stripe_id,
     stripe_account |-> Charge_stripe_account_stripe_id(custs, charge),
     amount |-> convert_amount_for_api(
                    IF TruthyV(amount) THEN amount ELSE charge.amount,
                    charge.currency),
     idempotency_key |-> idempotency_key,
     expand |-> "balance_transaction"]

\* Line 47, after a successful capture.
CaptureFinish(request, synced) ==
    [charges |-> synced.charges, requests |-> <<request>>,
     outcome |-> IF synced.ok THEN "ok" ELSE synced.error, error |-> ""]

\* A variant of lines 39-47 that syncs the expected result before the
\* processor has answered, and then reports the processor's refusal.
CaptureIssueOptimistic(chs, custs, charge, request, env) ==
    [CaptureFinish(request,
         sync_charge_from_stripe_data(chs, custs,
             ExpandedResponse(custs, charge, env.status),
             Charge_stripe_account_stripe_id(custs, charge)))
     EXCEPT !.outcome = IF env.processor_ok THEN @ ELSE "StripeError"]

\* Lines 39-47: the request, and the sync of a successful response only.
CaptureIssue(chs, custs, charge, request, env) ==
    IF ~env.processor_ok
    THEN [charges |-> chs, requests |-> <<request>>,
          outcome |-> "StripeError", error |-> ""]
    ELSE CaptureFinish(request,
             sync_charge_from_stripe_data(chs, custs,
                 ExpandedResponse(custs, charge, env.status),
                 Charge_stripe_account_stripe_id(custs, charge)))

\* The whole call; env = [processor_ok, status]. A charge whose amount is
\* NULL and no amount given: the conversion of None raises TypeError before
\* any request.
capture(chs, custs, charge, amount, idempotency_key, env) ==
    IF ~TruthyV(amount) /\ charge.amount.type = "none"
    THEN [charges |-> chs, requests |-> <<>>, outcome |-> "TypeError",
          error |-> "unsupported operand: NoneType"]
    ELSE CaptureIssue(chs, custs, charge,
             CaptureRequest(custs, charge, amount, idempotency_key), env)

(***************************************************************************)
(* refunds.create                                                          *)
(***************************************************************************)
\* Lines 18-21: the dict literal, as a set of [key, value]. Its keys are the
\* objects bound to `charge` and `stripe_account`, not the strings "charge"
\* and "stripe_account".
RefundParams(charge, stripe_account) ==
    {[key |-> [type |-> "Charge", name |-> charge.stripe_id],
      value |-> charge.stripe_id],
     [key |-> IF stripe_account = None
              THEN [type |-> "NoneType", name |-> None]
              ELSE [type |-> "str", name |-> stripe_account],
      value |-> stripe_account]}

\* params['amount'] (lines 23-25); NoneV when the key is not set
RefundAmount(charge, amount) ==
    IF amount.type # "none"
    THEN convert_amount_for_api(calculate_refund_amount(charge, amount),
                                charge.currency)
    ELSE NoneV

\* stripe.Refund.create(**params) raises TypeError unless every key is a str.
KeywordsAreStrings(params) == \A kv \in params : kv.key.type = "str"

\* The request of line 27: each key of the dict names a keyword argument.
RefundRequest(charge, amount, stripe_account) ==
    [kind |-> "Refund.create",
     kwargs |-> {[name |-> kv.key.name, value |-> kv.value] :
                    kv \in RefundParams(charge, stripe_account)},
     amount |-> RefundAmount(charge, amount)]

RetrieveRequest(custs, charge) ==
    [kind |-> "Charge.retrieve", id |-> charge.stripe_id,
     stripe_account |-> Charge_stripe_account_stripe_id(custs, charge),
     expand |-> "balance_transaction"]

\* Line 28, after a successful refund: charge.stripe_charge is retrieved
\* from the processor and synced.
RefundFinish(requests, synced) ==
    [charges |-> synced.charges, requests |-> requests,
     outcome |-> IF synced.ok THEN "ok" ELSE synced.error, error |-> ""]

\* Lines 27-28.
RefundIssue(chs, custs, charge, request, stripe_account, env) ==
    IF ~env.processor_ok
    THEN [charges |-> chs, requests |-> <<request>>,
          outcome |-> "StripeError", error |-> ""]
    ELSE RefundFinish(<<request, RetrieveRequest(custs, charge)>>,
             sync_charge_from_stripe_data(chs, custs,
                 ExpandedResponse(custs, charge, env.status),
                 stripe_account))

\* The whole call. keywords: the keyword arguments the caller passes beside
\* charge; the signature (line 7) takes amount and stripe_account only.
\* env = [processor_ok, status].
refunds_create(chs, custs, charge, amount, stripe_account, keywords, env) ==
    IF ~(keywords \subseteq {"amount", "stripe_account"})
    THEN [charges |-> chs, requests |-> <<>>, outcome |-> "TypeError",
          error |-> "unexpected keyword argument"]
    ELSE IF amount.type # "none" /\ charge.amount.type = "none"
    THEN [charges |-> chs, requests |-> <<>>, outcome |-> "TypeError",
          error |-> "unsupported operand: NoneType"]
    ELSE IF ~KeywordsAreStrings(RefundParams(charge, stripe_account))
    THEN [charges |-> chs, requests |-> <<>>, outcome |-> "TypeError",
          error |-> "keywords must be strings"]
    ELSE RefundIssue(chs, custs, charge,
             RefundRequest(charge, amount, stripe_account),
             stripe_account, env)

(***************************************************************************)
(* Inputs the model draws                                                   *)
(***************************************************************************)
ChargeIds == {"ch_1", "ch_2", "ch_3"}
IdOf(n) == IF n = 1 THEN "ch_1" ELSE IF n = 2 THEN "ch_2" ELSE "ch_3"
KnownIds == {IdOf(n) : n \in 1..NumCharges}

BTs == {NoBT, BareBT, FullBT("available"), FullBT("pending")}

Amounts == {IntV(100 * u) : u \in 1..MaxUnits}
RefundFigures == {NoneV} \cup {IntV(100 * u) : u \in 0..MaxUnits}

\* Inputs of sync_charge_from_stripe_data: <<data, stripe_account>>. The
\* first charge id is synced from every representation below, the other ids
\* from the base one.
MonetaryReps(id) ==
    {[BaseRep(id) EXCEPT !.amount = a, !.amount_refunded = r,
                         !.refunded = f, !.currency = c] :
        a \in Amounts, r \in RefundFigures, f \in BOOLEAN, c \in {"usd"}}
    \cup {[BaseRep(id) EXCEPT !.amount_refunded = r, !.refunded = f,
                              !.currency = "jpy"] :
            r \in {IntV(0), IntV(100)}, f \in BOOLEAN}

SettlementReps(id) ==
    {[BaseRep(id) EXCEPT !.description = d, !.balance_transaction = bt] :
        d \in {None, "d1"}, bt \in BTs}
    \cup {[BaseRep(id) EXCEPT !.paid = FALSE],
          [BaseRep(id) EXCEPT !.captured = FALSE]}

RelationInputs(id) ==
    {<<[BaseRep(id) EXCEPT !.customer = c], a>> :
        c \in {None, "cus_1", "cus_2"}, a \in {"acct_1", "acct_2"}}
    \cup {<<[BaseRep(id) EXCEPT !.customer = c], None>> :
            c \in {"cus_1", "cus_2", "cus_3"}}

OtherReps(id) ==
    {[BaseRep(id) EXCEPT !.invoice = "in_1"],
     [BaseRep(id) EXCEPT !.invoice = "in_9"],
     [BaseRep(id) EXCEPT !.dispute = "dp_1", !.transfer_group = "tg_1",
                         !.outcome = "out_1"]}

SyncInputs ==
    {<<d, None>> : d \in MonetaryReps("ch_1") \cup SettlementReps("ch_1")
                         \cup OtherReps("ch_1")}
    \cup RelationInputs("ch_1")
    \cup {<<BaseRep(id), None>> : id \in KnownIds}

\* Arguments of charges.create
BaseParams ==
    [amount |-> Dec(100), customer |-> NoCustomer, source |-> "src_1",
     currency |-> "usd", description |-> None, send_receipt |-> FALSE,
     capture |-> TRUE, email |-> None, direct_connect |-> None,
     destination_account |-> None, destination_amount |-> NoneV,
     application_fee |-> NoneV, on_behalf_of |-> None,
     idempotency_key |-> None, metadata |-> None]

ValidConfigs ==
    {BaseParams,
     [BaseParams EXCEPT !.direct_connect = "acct_1",
                        !.application_fee = Dec(0)],
     [BaseParams EXCEPT !.direct_connect = "acct_1",
                        !.application_fee = Dec(10)],
     [BaseParams EXCEPT !.direct_connect = "acct_2",
                        !.application_fee = Dec(0)],
     [BaseParams EXCEPT !.destination_account = "acct_1"],
     [BaseParams EXCEPT !.destination_account = "acct_1",
                        !.destination_amount = Dec(50)],
     [BaseParams EXCEPT !.destination_account = "acct_1",
                        !.application_fee = Dec(10)],
     [BaseParams EXCEPT !.on_behalf_of = "acct_1"]}

InvalidConfigs ==
    {[BaseParams EXCEPT !.amount = Flt(100)],
     [BaseParams EXCEPT !.direct_connect = "acct_1"],
     [BaseParams EXCEPT !.direct_connect = "acct_1",
                        !.destination_account = "acct_1",
                        !.application_fee = Dec(0)],
     [BaseParams EXCEPT !.application_fee = Dec(10)],
     [BaseParams EXCEPT !.destination_account = "acct_1",
                        !.on_behalf_of = "acct_1"]}

\* The valid configurations for a customer with and without an account of
\* its own and for none, the invalid ones for one customer, a customer given
\* as a bare id known or not, and the other arguments one at a time.
CreateArgs(custs) ==
    {[cfg EXCEPT !.customer = c] :
        cfg \in ValidConfigs,
        c \in {NoCustomer} \cup {CustomerObject(c) : c \in InitCustomers}}
    \cup {[cfg EXCEPT !.customer = CustomerId("cus_1")] :
            cfg \in InvalidConfigs}
    \cup {[BaseParams EXCEPT !.customer = CustomerId(id), !.amount = a] :
            id \in {"cus_1", "cus_3"}, a \in {Dec(100), Flt(100)}}
    \cup {[BaseParams EXCEPT !.source = None],
          [BaseParams EXCEPT !.source = None,
                             !.customer = CustomerId("cus_1")],
          [BaseParams EXCEPT !.send_receipt = TRUE],
          [BaseParams EXCEPT !.capture = FALSE,
                             !.idempotency_key = "key_1"],
          [BaseParams EXCEPT !.amount = Flt(100),
                             !.idempotency_key = "key_1"],
          [BaseParams EXCEPT !.direct_connect = "acct_1",
                             !.application_fee = Dec(0),
                             !.idempotency_key = "key_1"]}

SmallCreateArgs ==
    {BaseParams, [BaseParams EXCEPT !.amount = Flt(100)]}

\* What the processor and the receipt hook do to a create call: the
\* processor fails, or creates the charge under one of `ids`.
CreateEnvs(p, ids) ==
    {[processor_ok |-> FALSE, id |-> "ch_1", receipt_ok |-> TRUE]}
    \cup {[processor_ok |-> TRUE, id |-> i, receipt_ok |-> r] :
            i \in ids, r \in IF p.send_receipt THEN BOOLEAN ELSE {TRUE}}

\* Arguments of charges.capture and refunds.create
\* <<amount, idempotency_key>> of charges.capture
CaptureArgs == {<<NoneV, None>>, <<Dec(100), None>>, <<NoneV, "key_1">>}
\* <<amount, stripe_account, idempotency_key>> of refunds.create
RefundArgs ==
    {<<a, acct, None>> :
        a \in {NoneV} \cup {Dec(100 * u) : u \in 0..MaxUnits},
        acct \in {None, "acct_1"}}
    \cup {<<NoneV, None, "key_1">>}
ProcessorEnvs ==
    {[processor_ok |-> FALSE, status |-> "pending"]}
    \cup {[processor_ok |-> TRUE, status |-> st] :
            st \in {"pending", "available"}}
OpsProcessorEnvs == {e \in ProcessorEnvs : e.status = "pending"}
\* The processor is drawn only for a call that reaches it.
RefundEnvs(charge, stripe_account) ==
    IF KeywordsAreStrings(RefundParams(charge, stripe_account))
    THEN ProcessorEnvs
    ELSE {[processor_ok |-> TRUE, status |-> "pending"]}

\* Inputs of sync_charge_from_stripe_data where the other operations are
\* drawn widely
OpsSyncInputs ==
    {<<BaseRep(id), None>> : id \in KnownIds}
    \cup {<<[BaseRep("ch_1") EXCEPT !.customer = "cus_2"], None>>,
          <<[BaseRep("ch_1") EXCEPT !.customer = "cus_1"], "acct_1">>,
          <<BaseRep("ch_1"), "acct_2">>}

(***************************************************************************)
(* The ledger                                                              *)
(***************************************************************************)
Idle == [op |-> "none"]

Init ==
    /\ charges = {}
    /\ customers = InitCustomers
    /\ last = Idle
    /\ probe = Idle

\* A direct call of sync_charge_from_stripe_data (webhook, batch job).
SyncStep(in, r) ==
    /\ charges' = r.charges
    /\ last' = [op |-> "sync", data |-> in[1], stripe_account |-> in[2],
                ok |-> r.ok]
    /\ UNCHANGED <<customers, probe>>

SyncWith(inputs) ==
    \E in \in inputs :
        SyncStep(in, sync_charge_from_stripe_data(charges, customers,
                                                  in[1], in[2]))

CreateStep(p, r) ==
    /\ charges' = r.charges
    /\ customers' = r.customers
    /\ last' = [op |-> "create", params |-> p, requests |-> r.requests,
                outcome |-> r.outcome, error |-> r.error,
                returned |-> r.returned]
    /\ UNCHANGED probe

CreateWith(args, ids) ==
    \E p \in args : \E env \in CreateEnvs(p, ids) :
        CreateStep(p, create(charges, customers, p, env))

CaptureStep(charge, a, r) ==
    /\ charges' = r.charges
    /\ last' = [op |-> "capture", charge |-> charge.stripe_id,
                amount |-> a[1], idempotency_key |-> a[2],
                requests |-> r.requests, outcome |-> r.outcome,
                error |-> r.error]
    /\ UNCHANGED <<customers, probe>>

CaptureWith(rows, args, envs) ==
    \E charge \in rows, a \in args, env \in envs :
        CaptureStep(charge, a,
            capture(charges, customers, charge, a[1], a[2], env))

RefundStep(charge, a, r) ==
    /\ charges' = r.charges
    /\ last' = [op |-> "refund", charge |-> charge.stripe_id,
                amount |-> a[1], stripe_account |-> a[2],
                idempotency_key |-> a[3],
                requests |-> r.requests, outcome |-> r.outcome,
                error |-> r.error]
    /\ UNCHANGED <<customers, probe>>

\* The caller passes idempotency_key only when it has one.
RefundWith(rows, args) ==
    \E charge \in rows, a \in args :
      \E env \in RefundEnvs(charge, a[2]) :
        RefundStep(charge, a,
            refunds_create(charges, customers, charge, a[1], a[2],
                IF a[3] = None THEN {} ELSE {"idempotency_key"}, env))

\* The ledger with sync_charge_from_stripe_data drawn widely, the other
\* operations called on the first charge.
FirstRows == ChargeRows(charges, "ch_1")

Sync == SyncWith(SyncInputs)
Create == CreateWith(SmallCreateArgs, {"ch_1"})
Capture == CaptureWith(FirstRows, {<<NoneV, None>>}, ProcessorEnvs)
Refund == RefundWith(FirstRows, {<<NoneV, None, None>>})

Next == Sync \/ Create \/ Capture \/ Refund

Spec == Init /\ [][Next]_vars

\* The ledger synced only from representations that report amount_refunded
\* and report it within amount.
RepSound(data) ==
    /\ data.amount_refunded.type = "int"
    /\ data.amount_refunded.v <= data.amount.v
SoundSync == SyncWith({in \in SyncInputs : RepSound(in[1])})
SoundCreate == CreateWith(SmallCreateArgs, {"ch_1"})
SoundCapture == CaptureWith(FirstRows, {<<NoneV, None>>}, ProcessorEnvs)
SoundRefund == RefundWith(FirstRows, {<<NoneV, None, None>>})

SoundNext == SoundSync \/ SoundCreate \/ SoundCapture \/ SoundRefund

SpecSound == Init /\ [][SoundNext]_vars

\* The ledger with create, capture and refund drawn widely.
OpsSync == SyncWith(OpsSyncInputs)
OpsCreate == CreateWith(CreateArgs(customers), {"ch_1"})
OpsCapture == CaptureWith(charges, CaptureArgs, OpsProcessorEnvs)
OpsRefund == RefundWith(charges, RefundArgs)

OpsNext == OpsSync \/ OpsCreate \/ OpsCapture \/ OpsRefund

SpecOps == Init /\ [][OpsNext]_vars

(***************************************************************************)
(* _validate_create_params on every parameter tuple                        *)
(***************************************************************************)
NumberArgs == {NoneV, Dec(0), Dec(100), Flt(0), Flt(100), StrV(3)}

ValidateInputs ==
    [customer : {NoCustomer, CustomerId("cus_1")},
     source : {None, "src_1"},
     amount : NumberArgs,
     application_fee : NumberArgs,
     direct_connect : {None, "acct_1"},
     destination_account : {None, "acct_2"},
     destination_amount : {NoneV, Dec(50)},
     on_behalf_of : {None, "acct_1"}]

InitValidate ==
    /\ charges = {}
    /\ customers = InitCustomers
    /\ last = Idle
    /\ probe \in {[op |-> "validate", args |-> a, done |-> FALSE,
                   result |-> ""] : a \in ValidateInputs}

Validate ==
    /\ probe.op = "validate"
    /\ ~probe.done
    /\ probe' = [probe EXCEPT
           !.done = TRUE,
           !.result = validate_create_params(
               ResolveCustomer(customers, probe.args.customer),
               probe.args.source, probe.args.amount,
               probe.args.application_fee, probe.args.direct_connect,
               probe.args.destination_account,
               probe.args.destination_amount, probe.args.on_behalf_of)]
    /\ UNCHANGED <<charges, customers, last>>

SpecValidate == InitValidate /\ [][Validate]_vars

(***************************************************************************)
(* calculate_refund_amount on every charge and amount                      *)
(***************************************************************************)
ProbeDecimals == {Dec(10 * k) : k \in 0..MaxProbe}

InitRefundAmount ==
    /\ charges = {}
    /\ customers = InitCustomers
    /\ last = Idle
    /\ probe \in {[op |-> "calculate_refund_amount",
                   charge |-> [amount |-> a, amount_refunded |-> r],
                   amount |-> m, done |-> FALSE, result |-> NoneV] :
                    a \in ProbeDecimals,
                    r \in ProbeDecimals \cup {NoneV},
                    m \in ProbeDecimals \cup {NoneV}}

CalculateRefundAmount ==
    /\ probe.op = "calculate_refund_amount"
    /\ ~probe.done
    /\ probe' = [probe EXCEPT
           !.done = TRUE,
           !.result = calculate_refund_amount(probe.charge, probe.amount)]
    /\ UNCHANGED <<charges, customers, last>>

SpecRefundAmount == InitRefundAmount /\ [][CalculateRefundAmount]_vars

(***************************************************************************)
(* charges.update_charge_availability                                      *)
(***************************************************************************)
\* A variant of lines 245-250 that leaves out the test of available.
AvailabilityCandidatesSettledToo(chs) ==
    {c \in chs : c.paid /\ c.captured /\ ~c.refunded}

\* Lines 245-250: the queryset, paid and captured, neither available nor
\* refunded.
AvailabilityCandidates(chs) ==
    {c \in chs : c.paid /\ c.captured /\ ~(c.available \/ c.refunded)}

\* retrieve (lines 164-170): the request.
ChargeRetrieveRequest(stripe_id, stripe_account) ==
    [kind |-> "Charge.retrieve", id |-> stripe_id,
     stripe_account |-> stripe_account, expand |-> "balance_transaction"]

\* Line 187, after the processor answered the retrieve.
SyncChargeFinish(request, synced) ==
    [charges |-> synced.charges, requests |-> {request},
     outcome |-> IF synced.ok THEN "ok" ELSE synced.error]

\* sync_charge (lines 184-188): retrieve, then sync under the same account.
\* env = [processor_ok, status].
sync_charge(chs, custs, stripe_id, stripe_account, env) ==
    IF ~env.processor_ok
    THEN [charges |-> chs,
          requests |-> {ChargeRetrieveRequest(stripe_id, stripe_account)},
          outcome |-> "StripeError"]
    ELSE SyncChargeFinish(ChargeRetrieveRequest(stripe_id, stripe_account),
             sync_charge_from_stripe_data(chs, custs,
                 ExpandedResponse(custs,
                     CHOOSE r \in ChargeRows(chs, stripe_id) : TRUE,
                     env.status),
                 stripe_account))

\* Lines 253-257, one turn of the loop for the row c the scan returned:
\* c.customer.stripe_account raises AttributeError when c.customer is None,
\* before any request.
AvailabilityVisit(chs, custs, c, env) ==
    IF c.customer = None
    THEN [charges |-> chs, requests |-> {}, outcome |-> "AttributeError"]
    ELSE sync_charge(chs, custs, c.stripe_id,
                     Customer_stripe_account(custs, c.customer), env)

(***************************************************************************)
(* The ledger under the availability pass                                  *)
(***************************************************************************)
\* Inputs of sync_charge_from_stripe_data that make charges of every kind
\* the scan tells apart: with and without a customer, the customer with and
\* without an account, settled, refunded, unpaid; fewer kinds for the
\* charges after the first.
PassSyncInputsOf(id) ==
    {<<BaseRep(id), None>>,
     <<[BaseRep(id) EXCEPT !.customer = "cus_1"], None>>,
     <<[BaseRep(id) EXCEPT !.customer = "cus_1"], "acct_1">>,
     <<[BaseRep(id) EXCEPT !.customer = "cus_2"], None>>,
     <<[BaseRep(id) EXCEPT !.customer = "cus_2",
                           !.balance_transaction = FullBT("available")],
       None>>,
     <<[BaseRep(id) EXCEPT !.customer = "cus_2", !.refunded = TRUE], None>>,
     <<[BaseRep(id) EXCEPT !.customer = "cus_2", !.paid = FALSE], None>>}

PassSyncInputs ==
    PassSyncInputsOf("ch_1")
    \cup UNION {{<<BaseRep(id), None>>,
                 <<[BaseRep(id) EXCEPT !.customer = "cus_2"], None>>}
                : id \in KnownIds \ {"ch_1"}}

PassName == "update_charge_availability"

\* No pass is between its scan and its end.
PassIdle == IF last.op = PassName THEN last.state # "running" ELSE TRUE

\* Lines 245-252: the scan. The rows it returns are those of scan time.
AvailabilityScan ==
    /\ PassIdle
    /\ last' = [op |-> PassName,
                state |-> IF AvailabilityCandidates(charges) = {}
                          THEN "done" ELSE "running",
                scanned |-> charges,
                candidates |-> AvailabilityCandidates(charges),
                todo |-> AvailabilityCandidates(charges),
                requests |-> {},
                synced |-> {}]
    /\ UNCHANGED <<charges, customers, probe>>

\* Lines 253-257: the iterator yields a row, in whatever order the database
\* returns them; an exception ends the pass.
AvailabilityTurn(c, r) ==
    /\ charges' = r.charges
    /\ last' = [last EXCEPT
           !.state = IF r.outcome # "ok" THEN r.outcome
                     ELSE IF last.todo = {c} THEN "done" ELSE "running",
           !.todo = IF r.outcome = "ok" THEN @ \ {c} ELSE @,
           !.requests = @ \cup r.requests,
           !.synced = IF r.outcome = "ok" THEN @ \cup {c.stripe_id} ELSE @]
    /\ UNCHANGED <<customers, probe>>

AvailabilityStep ==
    /\ last.op = PassName
    /\ last.state = "running"
    /\ \E c \in last.todo, env \in ProcessorEnvs :
          AvailabilityTurn(c, AvailabilityVisit(charges, customers, c, env))

PassSync == PassIdle /\ SyncWith(PassSyncInputs)

PassNext == PassSync \/ AvailabilityScan \/ AvailabilityStep

SpecPass == Init /\ [][PassNext]_vars

(***************************************************************************)
(* Two sync_charge_from_stripe_data calls at once                          *)
(***************************************************************************)
\* A variant of line 235 that inserts the object as a new row.
SyncRowOverInsert(table, row, obj, custs, data, stripe_account) ==
    IF /\ Customer_stripe_account(custs,
              Customer_first(custs, data.customer)) = None
       /\ stripe_account # None
       /\ stripe_account \notin LocalAccounts
    THEN [ok |-> FALSE, error |-> "DoesNotExist", charges |-> table]
    ELSE [ok |-> TRUE, error |-> "",
          charges |-> table
                        \cup {SyncFields(obj, custs, data, stripe_account)}]

\* Lines 205-236 for the object obj that get_or_create returned earlier,
\* when the table now holds `row` under obj's key: save() writes every
\* field of obj over that row.
SyncRowOver(table, row, obj, custs, data, stripe_account) ==
    IF /\ Customer_stripe_account(custs,
              Customer_first(custs, data.customer)) = None
       /\ stripe_account # None
       /\ stripe_account \notin LocalAccounts
    THEN [ok |-> FALSE, error |-> "DoesNotExist", charges |-> table]
    ELSE [ok |-> TRUE, error |-> "",
          charges |-> Charge_save(table, row,
                          SyncFields(obj, custs, data, stripe_account))]

\* The calls that race: <<data, stripe_account>>, all for one new charge id.
RaceInputs ==
    {<<BaseRep("ch_1"), None>>,
     <<[BaseRep("ch_1") EXCEPT !.description = "d1"], None>>,
     <<[BaseRep("ch_1") EXCEPT !.amount = IntV(200),
                               !.amount_refunded = IntV(100)], None>>,
     <<[BaseRep("ch_1") EXCEPT
           !.balance_transaction = FullBT("available")], None>>,
     <<[BaseRep("ch_1") EXCEPT !.customer = "cus_1"], "acct_1">>,
     <<BaseRep("ch_1"), "acct_2">>}

Callers == {1, 2}

InitRace ==
    /\ charges = {}
    /\ customers = InitCustomers
    /\ last = Idle
    /\ probe \in {[op |-> "race", calls |-> <<a, b>>,
                   pc |-> <<"get", "get">>,
                   obj |-> <<ChargeDefaults("ch_1"), ChargeDefaults("ch_1")>>]
                  : a \in RaceInputs, b \in RaceInputs}

\* Line 204 of caller i, atomic in the database.
RaceGot(i, goc) ==
    /\ charges' = goc.table
    /\ probe' = [probe EXCEPT !.pc[i] = "save", !.obj[i] = goc.obj]
    /\ UNCHANGED <<customers, last>>

RaceGet ==
    \E i \in Callers :
        /\ probe.op = "race"
        /\ probe.pc[i] = "get"
        /\ RaceGot(i, Charge_get_or_create(charges, probe.calls[i][1].id))

\* Lines 205-235 of caller i: the assignments touch its own object only,
\* save() is atomic in the database.
RaceSaved(i, r) ==
    /\ charges' = r.charges
    /\ probe' = [probe EXCEPT !.pc[i] = IF r.ok THEN "done" ELSE "failed"]
    /\ UNCHANGED <<customers, last>>

RaceSave ==
    \E i \in Callers :
        /\ probe.op = "race"
        /\ probe.pc[i] = "save"
        /\ RaceSaved(i,
               SyncRowOver(charges,
                   CHOOSE r \in ChargeRows(charges, probe.obj[i].stripe_id) :
                       TRUE,
                   probe.obj[i], customers, probe.calls[i][1],
                   probe.calls[i][2]))

RaceNext == RaceGet \/ RaceSave

SpecRace == InitRace /\ [][RaceNext]_vars

(***************************************************************************)
(* Properties of the synced ledger                                         *)
(***************************************************************************)
\* The row or rows the ledger holds for the charge of the last sync.
LastRows == ChargeRows(charges, last.data.id)

LastSyncDone == last.op = "sync" /\ last.ok

\* C1: every persisted Charge whose amount is set has amount_refunded (NULL
\* counted as zero) no larger than amount, whatever sequence of syncs,
\* creates, captures and refunds produced it, when every representation
\* synced reported amount_refunded within amount.
C1_RefundedWithinAmount ==
    \A c \in charges :
        c.amount.type # "none" => OrZero(c.amount_refunded).v <= c.amount.v

\* C2: after a sync of a representation whose refunded flag is true, the
\* persisted amount_refunded equals the persisted amount, whatever figure
\* the representation reports for amount_refunded.
C2_RefundedFlagForcesAmount ==
    (LastSyncDone /\ last.data.refunded) =>
        /\ LastRows # {}
        /\ \A c \in LastRows :
              /\ c.amount = convert_amount_for_db(last.data.amount,
                                                  last.data.currency)
              /\ c.amount_refunded = c.amount

\* A refunded representation that reports more than its amount was synced.
C2_Witness ==
    /\ LastSyncDone
    /\ last.data.refunded
    /\ last.data.amount_refunded.type = "int"
    /\ last.data.amount_refunded.v > last.data.amount.v
    /\ \E c \in LastRows : c.amount_refunded = c.amount

\* C3: syncing the representation of the last sync once more, with the same
\* account context, ends as the first did, leaves the ledger exactly as it
\* is, and the ledger holds exactly one Charge for that id.
C3_SyncIdempotent ==
    last.op = "sync" =>
        /\ Cardinality(LastRows) = 1
        /\ sync_charge_from_stripe_data(charges, customers, last.data,
               last.stripe_account)
             = [ok |-> last.ok,
                error |-> IF last.ok THEN "" ELSE "DoesNotExist",
                charges |-> charges]

\* A sync that kept an earlier description and an earlier refunded figure,
\* the representation carrying neither, with another charge in the ledger.
C3_Witness ==
    /\ LastSyncDone
    /\ last.data.description = None
    /\ ~TruthyV(last.data.amount_refunded)
    /\ Cardinality(charges) > 1
    /\ \E c \in LastRows :
          c.description = "d1" /\ TruthyV(c.amount_refunded)

\* C4: after a sync of a representation that carries amount_refunded (zero
\* included) and whose refunded flag is not true, the persisted
\* amount_refunded (NULL counted as zero) is that value converted, whatever
\* earlier syncs stored.
C4_LastReportedFigureWins ==
    (LastSyncDone /\ ~last.data.refunded
        /\ last.data.amount_refunded.type = "int") =>
        \A c \in LastRows :
            OrZero(c.amount_refunded)
              = convert_amount_for_db(last.data.amount_refunded,
                                      last.data.currency)

(***************************************************************************)
(* Properties of the validator                                             *)
(***************************************************************************)
\* An optional number, an optional id: present when it is not None.
Present(x) == x.type # "none"
Given(id) == id # None

\* A fee that takes something: present and not zero.
Charged(x) == Present(x) /\ x.v # 0

\* Rules 1-9 for a parameter tuple a, each as the condition under which the
\* rule is kept. Rule 1 is read as its parenthesis states it: at least one
\* of customer and source. Rules 3 and 5 speak of a fee that is present,
\* zero included; rules 7 and 8 are read of a fee that takes something, the
\* reading under which a zero fee, which rule 5 allows, needs no account.
Rule1(a) == a.customer.kind # "none" \/ Given(a.source)
Rule2(a) == IsDecimal(a.amount)
Rule3(a) == Present(a.application_fee) => IsDecimal(a.application_fee)
Rule4(a) == ~(Given(a.destination_account) /\ Given(a.direct_connect))
Rule5(a) == Given(a.direct_connect) => Present(a.application_fee)
Rule6(a) == ~(Given(a.direct_connect) /\ Present(a.destination_amount))
Rule7(a) ==
    Charged(a.application_fee) =>
        (Given(a.destination_account) \/ Given(a.direct_connect))
Rule8(a) ==
    Given(a.destination_account) =>
        ~(Charged(a.application_fee) /\ Present(a.destination_amount))
Rule9(a) == ~(Given(a.destination_account) /\ Given(a.on_behalf_of))

RulesKept(a) ==
    /\ Rule1(a) /\ Rule2(a) /\ Rule3(a) /\ Rule4(a) /\ Rule5(a)
    /\ Rule6(a) /\ Rule7(a) /\ Rule8(a) /\ Rule9(a)

\* C5: on every parameter tuple _validate_create_params raises exactly when
\* one of rules 1-9 is violated and returns normally exactly when all nine
\* are kept.
C5_ValidatorAgreesWithRules ==
    (probe.op = "validate" /\ probe.done) =>
        ((probe.result = "") <=> RulesKept(probe.args))

(***************************************************************************)
(* Properties of create, capture and refund                                *)
(***************************************************************************)
\* C6: a charges.create call that validation rejects issues no processor
\* request and leaves the Charge and Customer tables as they were, a
\* customer passed as a bare id not yet known locally included.
C6_RejectedCreateHasNoEffect ==
    [][(last'.op = "create" /\ last'.outcome = "ValueError") =>
          /\ last'.requests = <<>>
          /\ charges' = charges
          /\ customers' = customers]_vars

\* C7: a create, capture or refund whose processor call fails ends with the
\* processor's error and leaves every Charge row as it was: the response is
\* synced only when the processor succeeded.
C7_ProcessorFailureLeavesCharges ==
    [][(last'.op \in {"create", "capture", "refund"}
          /\ last'.outcome = "StripeError") =>
          charges' = charges]_vars

\* A capture the processor refused, issued for a charge the ledger holds
\* unsettled: a sync of the expected response would have changed the row.
C7_Witness ==
    /\ last.op = "capture"
    /\ last.outcome = "StripeError"
    /\ Len(last.requests) = 1
    /\ \E c \in ChargeRows(charges, last.charge) :
          c.amount.type # "none" /\ c.fee.type = "none"

\* C8: calculate_refund_amount returns min(amount - amount_refunded, given)
\* for every given amount, zero included, and amount - amount_refunded when
\* none is given, a NULL amount_refunded counted as zero; the result never
\* exceeds the unrefunded balance.
Balance(charge) == charge.amount.v - OrZero(charge.amount_refunded).v

C8_RefundAmountIsMinimum ==
    (probe.op = "calculate_refund_amount" /\ probe.done) =>
        /\ probe.result.v
             = IF Present(probe.amount) /\ probe.amount.v < Balance(probe.charge)
               THEN probe.amount.v
               ELSE Balance(probe.charge)
        /\ probe.result.v <= Balance(probe.charge)

\* C9: a refunds.create call with the arguments its signature takes, on a
\* charge whose amount is set, issues one refund request that names the
\* charge by its processor id under the keyword charge, carries the
\* caller's account under the keyword stripe_account and, when an amount
\* was given, the amount; after the processor's success the charge is
\* retrieved and synced.
C9_RefundRequestNamesCharge ==
    (last.op = "refund" /\ last.idempotency_key = None
        /\ last.error # "unsupported operand: NoneType") =>
        /\ Len(last.requests) >= 1
        /\ last.requests[1].kind = "Refund.create"
        /\ [name |-> "charge", value |-> last.charge]
             \in last.requests[1].kwargs
        /\ [name |-> "stripe_account", value |-> last.stripe_account]
             \in last.requests[1].kwargs
        /\ Present(last.requests[1].amount) = Present(last.amount)
        /\ last.outcome = "ok" => Len(last.requests) = 2

\* The idempotency key the caller of the last operation passed, and the one
\* a request carries (a refund request has no such keyword).
CallerKey ==
    IF last.op = "create" THEN last.params.idempotency_key
    ELSE last.idempotency_key
RequestKey(request) ==
    IF request.kind \in {"Charge.create", "Charge.capture"}
    THEN request.idempotency_key
    ELSE None
Mutating(request) ==
    request.kind \in {"Charge.create", "Charge.capture", "Refund.create"}

\* C10 as stated: create, capture and refund each accept the caller's
\* idempotency key, and each mutating request issued carries exactly it.
C10_EveryOperationPassesKey ==
    last.op \in {"create", "capture", "refund"} =>
        /\ last.error # "unexpected keyword argument"
        /\ \A i \in 1..Len(last.requests) :
              Mutating(last.requests[i]) =>
                  RequestKey(last.requests[i]) = CallerKey

\* C10: charges.create and charges.capture accept the caller's idempotency
\* key and the request each issues carries exactly it, None when the caller
\* gave none; refunds.create takes no idempotency key, and a call that
\* passes one ends in TypeError before any request.
C10_CreateAndCapturePassKey ==
    /\ last.op \in {"create", "capture"} =>
          /\ last.error # "unexpected keyword argument"
          /\ last.outcome \notin {"ValueError", "TypeError"} =>
                Len(last.requests) = 1
          /\ \A i \in 1..Len(last.requests) :
                /\ Mutating(last.requests[i])
                /\ RequestKey(last.requests[i]) = CallerKey
    /\ (last.op = "refund" /\ CallerKey # None) =>
          /\ last.outcome = "TypeError"
          /\ last.requests = <<>>

\* A capture called with a key issued its request.
C10_Witness ==
    /\ last.op = "capture"
    /\ last.idempotency_key = "key_1"
    /\ Len(last.requests) = 1
    /\ last.requests[1].idempotency_key = "key_1"

(***************************************************************************)
(* Properties of the availability pass                                     *)
(***************************************************************************)
\* A charge whose settlement status may still change.
IsCandidate(c) == c.paid /\ c.captured /\ ~c.available /\ ~c.refunded

\* C11: a pass fetches and re-syncs only charges that at scan time are paid
\* and captured and neither available nor refunded; a charge outside that
\* set is never fetched and its row is left as the scan found it.
C11_OnlyCandidatesFetched ==
    last.op = PassName =>
        /\ \A rq \in last.requests :
              \E c \in last.scanned : c.stripe_id = rq.id /\ IsCandidate(c)
        /\ \A id \in last.synced :
              \E c \in last.scanned : c.stripe_id = id /\ IsCandidate(c)
        /\ \A c \in last.scanned : ~IsCandidate(c) => c \in charges

\* A pass that ran to its end re-synced a candidate, changing its row, with
\* a settled charge in the ledger.
C11_Witness ==
    /\ last.op = PassName
    /\ last.state = "done"
    /\ last.requests # {}
    /\ \E c \in last.scanned : c.paid /\ c.captured /\ c.available
    /\ \E c \in last.scanned : IsCandidate(c) /\ c \notin charges

\* C12: when the processor answers every retrieve, a pass that has ended
\* has re-synced every candidate of its scan, whatever the other candidates
\* are and whether or not a candidate has a linked Customer.
C12_EveryCandidateSynced ==
    (last.op = PassName /\ last.state \notin {"running", "StripeError"}) =>
        last.synced = {c.stripe_id : c \in last.candidates}

\* C13: every retrieve of a pass is issued under the account context
\* recorded for the charge, the one charges.capture sends for it, an
\* account recorded on the Charge itself included.
C13_RetrieveUnderRecordedAccount ==
    last.op = PassName =>
        \A rq \in last.requests :
            \A c \in last.scanned :
                c.stripe_id = rq.id =>
                    rq.stripe_account
                      = CaptureRequest(customers, c, NoneV, None).stripe_account

(***************************************************************************)
(* Properties of two syncs at once                                         *)
(***************************************************************************)
RaceOver ==
    /\ probe.op = "race"
    /\ \A i \in Callers : probe.pc[i] \in {"done", "failed"}

\* The ledger one of the calls leaves when it runs alone on the new id, and
\* the ledger the two leave when one runs after the other has returned.
Alone(i) ==
    sync_charge_from_stripe_data({}, customers, probe.calls[i][1],
                                 probe.calls[i][2]).charges
OneThenOther(i, j) ==
    sync_charge_from_stripe_data(Alone(i), customers, probe.calls[j][1],
                                 probe.calls[j][2]).charges

\* C14 as stated: two syncs of one new charge id at once end with exactly
\* one Charge row for the id, and its fields are those one of the two
\* calls produces alone.
C14_RaceEndsAsOneCallAlone ==
    RaceOver =>
        /\ Cardinality(ChargeRows(charges, "ch_1")) = 1
        /\ charges \in {Alone(1), Alone(2)}

\* C14: two syncs of one new charge id at once never hold more than one
\* Charge row for the id and end with exactly one, whose fields are those
\* one of the calls produces alone or those the two calls produce when one
\* runs after the other: a field a representation does not carry may
\* come from the other call.
C14_RaceEndsAsSomeOrder ==
    /\ probe.op = "race" => Cardinality(ChargeRows(charges, "ch_1")) <= 1
    /\ RaceOver =>
          /\ Cardinality(ChargeRows(charges, "ch_1")) = 1
          /\ charges \in {Alone(1), Alone(2),
                          OneThenOther(1, 2), OneThenOther(2, 1)}

\* Both calls saved, and the row mixes fields of the two representations.
C14_Witness ==
    /\ RaceOver
    /\ \A i \in Callers : probe.pc[i] = "done"
    /\ probe.calls[1] # probe.calls[2]
    /\ charges \notin {Alone(1), Alone(2)}

(***************************************************************************)
(* Properties of create: the receipt, the account context                  *)
(***************************************************************************)
\* C15: a create with receipt sending enabled that the processor accepted
\* and whose response was synced returns the local Charge whether or not
\* the receipt hook fails.
C15_ReceiptFailureKeepsResult ==
    (last.op = "create" /\ last.params.send_receipt
        /\ last.outcome \notin {"ValueError", "StripeError", "DoesNotExist"})
      => /\ last.outcome = "ok"
         /\ last.returned # None
         /\ ChargeRows(charges, last.returned) # {}

\* The charge the last create returned is in the ledger as the sync of the
\* processor's response wrote it for a new id.
FreshlyCreated ==
    ChargeRows(charges, last.returned)
      = sync_charge_from_stripe_data({}, customers,
            CreateResponse(last.requests[1], last.returned),
            SyncAccountOfCreate(last.params)).charges

\* C16: a capture issued right after a create that succeeded is sent under
\* the account context the create request was sent under, and the account
\* the sync recorded on the Charge is set only when the customer carries
\* none.
C16_CaptureUnderCreateContext ==
    [][(/\ last.op = "create"
        /\ last.outcome = "ok"
        /\ FreshlyCreated
        /\ last'.op = "capture"
        /\ last'.charge = last.returned
        /\ Len(last'.requests) = 1)
       => /\ last'.requests[1].stripe_account
               = last.requests[1].stripe_account
          /\ \A c \in ChargeRows(charges, last.returned) :
                c.stripe_account_hc # None =>
                    Customer_stripe_account(customers, c.customer) = None
      ]_vars

(***************************************************************************)
(* Properties of sync: gaps in the representation, failed calls            *)
(***************************************************************************)
\* The row a sync of the id starts from: the stored one, or the defaults
\* get_or_create writes for an id the ledger does not know.
PriorRow(id) ==
    IF ChargeRows(charges, id) = {} THEN ChargeDefaults(id)
    ELSE CHOOSE r \in ChargeRows(charges, id) : TRUE

SettlementOf(c) == <<c.available, c.available_on, c.fee, c.fee_currency>>

\* C17: a sync from a representation without a description leaves the
\* stored description as it was, and a sync from a representation whose
\* settlement is absent or a bare id leaves available, available_on, fee
\* and fee_currency as they were.
C17_GapsKeepFields ==
    [][last'.op = "sync" =>
        \A n \in ChargeRows(charges', last'.data.id) :
            /\ ~TruthyS(last'.data.description) =>
                  n.description = PriorRow(last'.data.id).description
            /\ last'.data.balance_transaction.kind \in {"none", "id"} =>
                  SettlementOf(n) = SettlementOf(PriorRow(last'.data.id))
      ]_vars

\* A completed sync from a representation with neither description nor full
\* settlement, over a row that held both.
C17_Witness ==
    /\ last.op = "sync"
    /\ last.ok
    /\ last.data.description = None
    /\ last.data.balance_transaction.kind \in {"none", "id"}
    /\ \E c \in ChargeRows(charges, last.data.id) :
          /\ c.description = "d1"
          /\ c.available
          /\ c.fee = Dec(30)
          /\ c.fee_currency = "usd"

\* C18: every Charge row in the ledger was written in full by a sync that
\* completed; in particular a sync that failed on an id the ledger did
\* not know leaves no row for it.
C18_NoRowFromFailedSync ==
    /\ \A c \in charges : c # ChargeDefaults(c.stripe_id)
    /\ (last.op = "sync" /\ ~last.ok) =>
          \A c \in ChargeRows(charges, last.data.id) :
              c.amount # NoneV /\ c.source # ""
====
